---- MODULE Spec2Model ----
(***************************************************************************)
(* The NATS consumer input plugin (plugins/inputs/nats_consumer):          *)
(* natsConsumer.Start / Stop / clean, the receiver goroutine, the message  *)
(* callback registered with QueueSubscribe and natsErrHandler.             *)
(*                                                                         *)
(* The broker client (nats.Conn, nats.Subscription), the parser and the    *)
(* accumulator are external: every call into them that can fail fails or   *)
(* succeeds nondeterministically, the parser returns any (metrics, err)    *)
(* pair, and the accumulator is the log `sink` of the calls made to it.    *)
(***************************************************************************)
EXTENDS Integers, Sequences, FiniteSets, TLC

\* ---------------------------------------------------------------- bounds
NumCallers  == 2   \* goroutines of the host that call Start and Stop
MaxStarts   == 2   \* Start calls in one behaviour
MaxStops    == 2   \* Stop calls in one behaviour
MaxMsgs     == 2   \* messages the broker delivers in one behaviour
MaxFaults   == 1   \* asynchronous errors the broker raises in one behaviour
MaxRecs     == 1   \* metrics the parser returns for one message, at most
NumSubjects == 2   \* len(n.Subjects)
\* cap(n.in): make(chan *nats.Msg, 1000) in the source.  The behaviour of
\* the channel depends on the capacity only through "full / not full", so
\* the model keeps a small capacity that the bounded deliveries can fill.
InCap       == 1

Callers  == 1..NumCallers
Subjects == 1..NumSubjects

\* ----------------------------------------------------------------- state
VARIABLES
    pc,         \* pc[t]: where caller t is inside Start or Stop
    ret,        \* what the last Start call returned ("none" while it runs)
    mu,         \* the embedded sync.Mutex: 0 (free) or the caller holding it
    nStarts,    \* Start calls made
    nStops,     \* Stop calls made
    Conn,       \* n.Conn: 0 (nil) or the index of a connection in conns
    conns,      \* every connection opts.Connect() returned: TRUE while open
    subsAll,    \* every subscription QueueSubscribe returned
    Subs,       \* n.Subs: indices into subsAll
    subjIdx,    \* the range index of the loop over n.Subjects in Start
    curSub,     \* `sub` of the current iteration of that loop
    cleanIdx,   \* the range index of the loop over n.Subs in clean
    startLog,   \* the broker calls the current (or last) Start made
    in,         \* the buffer of channel n.in: message ids, oldest first
    sending,    \* message callbacks blocked in `n.in <- m`
    delivered,  \* delivered[m]: subject and subscription of message m
    parsed,     \* parsed[m]: what n.parser.Parse returned for m, and how often
    done,       \* n.done: 0 (nil) or the index of a channel in closes
    closes,     \* closes[d]: calls of close() on done channel d
    wg,         \* the counter of n.wg
    recv,       \* the receiver goroutines, in launch order
    sink,       \* the calls made on n.acc, in order
    faults,     \* natsErrHandler invocations: [raised, sent, dropped]
    errcb,      \* the goroutine running natsErrHandler: "idle" or "blocked"
    panicked    \* "none", or the run-time panic that ended the process

vars == <<pc, ret, mu, nStarts, nStops, Conn, conns, subsAll, Subs,
          subjIdx, curSub, cleanIdx, startLog, in, sending, delivered, parsed,
          done, closes, wg, recv, sink, faults, errcb, panicked>>

callerVars == <<pc, ret, mu, nStarts, nStops>>
connVars   == <<Conn, conns>>
subVars    == <<subsAll, Subs, subjIdx, curSub>>
msgVars    == <<in, sending, delivered, parsed>>
doneVars   == <<done, closes>>
recvVars   == <<wg, recv>>
faultVars  == <<faults, errcb>>

StartPcs == {"s_conn", "s_sub", "s_flush", "s_limit", "s_launch"}
StopPcs  == {"p_close", "p_wait", "p_clean"}

NoRes == [n |-> 0, err |-> FALSE, times |-> 0]

Init ==
    /\ pc = [t \in Callers |-> "idle"]
    /\ ret = "none"
    /\ mu = 0
    /\ nStarts = 0
    /\ nStops = 0
    /\ Conn = 0
    /\ conns = <<>>
    /\ subsAll = <<>>
    /\ Subs = <<>>
    /\ subjIdx = 0
    /\ curSub = 0
    /\ cleanIdx = 0
    /\ startLog = <<>>
    /\ in = <<>>
    /\ sending = {}
    /\ delivered = <<>>
    /\ parsed = <<>>
    /\ done = 0
    /\ closes = <<>>
    /\ wg = 0
    /\ recv = <<>>
    /\ sink = <<>>
    /\ faults = [raised |-> 0, sent |-> 0, dropped |-> 0]
    /\ errcb = "idle"
    /\ panicked = "none"

\* The process is alive: a run-time panic in Stop is not recovered.
Alive == panicked = "none"

\* ------------------------------------------------------------- helpers
\* n.Conn.IsClosed()
IsClosed(c) == ~conns[c]

\* A subscription delivers while it is not unsubscribed and its
\* connection is open.
Delivers(s) == subsAll[s].active /\ conns[subsAll[s].conn]

Log(op, s, ok) == Append(startLog, [op |-> op, subj |-> s, ok |-> ok])

\* A Start that ignores the error and goes on to launch the receiver.
StartSwallowErr(t) ==
    /\ pc' = [pc EXCEPT ![t] = "s_launch"]
    /\ UNCHANGED <<ret, mu>>

\* The last step of a Start that fails: `return err`, and the deferred
\* n.Unlock() runs.
StartReturnErr(t) ==
    /\ pc' = [pc EXCEPT ![t] = "idle"]
    /\ ret' = "error"
    /\ mu' = 0

\* A Start that connects whether or not a connection is open.
NeedConnectAlways == TRUE

\* `if n.Conn == nil || n.Conn.IsClosed()`
NeedConnect == IF Conn = 0 THEN TRUE ELSE IsClosed(Conn)

\* Where `for _, subj := range n.Subjects` goes with range index i.
LoopPc(i) == IF i <= NumSubjects THEN "s_sub" ELSE "s_launch"

\* A loop body that sets the limits before the flush.
PcAfterSubscribeNoFlush == "s_limit"

\* After a successful QueueSubscribe the loop body calls n.Conn.Flush().
PcAfterSubscribe == "s_flush"

\* ------------------------------------------------------------- Start
\* A Start that does not wait for the lock.
StartCallNoLock(t) ==
    /\ Alive
    /\ pc[t] = "idle"
    /\ nStarts < MaxStarts
    /\ mu' = t
    /\ pc' = [pc EXCEPT ![t] = "s_conn"]
    /\ ret' = "none"
    /\ nStarts' = nStarts + 1
    /\ startLog' = <<>>
    /\ UNCHANGED <<nStops, connVars, subVars, cleanIdx, msgVars, doneVars,
                   recvVars, sink, faultVars, panicked>>

\* n.Lock(); defer n.Unlock(); n.acc = acc
StartCall(t) ==
    /\ Alive
    /\ pc[t] = "idle"
    /\ mu = 0
    /\ nStarts < MaxStarts
    /\ mu' = t
    /\ pc' = [pc EXCEPT ![t] = "s_conn"]
    /\ ret' = "none"
    /\ nStarts' = nStarts + 1
    /\ startLog' = <<>>
    /\ UNCHANGED <<nStops, connVars, subVars, cleanIdx, msgVars, doneVars,
                   recvVars, sink, faultVars, panicked>>

\* n.Conn, connectErr = opts.Connect(), and on success n.errs = make(...),
\* SetErrorHandler, n.in = make(...)
StartConnect(t) ==
    /\ Alive
    /\ pc[t] = "s_conn"
    /\ NeedConnect
    /\ \E ok \in BOOLEAN :
        /\ startLog' = Log("Connect", 0, ok)
        /\ IF ok
           THEN /\ conns' = Append(conns, TRUE)
                /\ Conn' = Len(conns) + 1
                /\ in' = <<>>
                /\ subjIdx' = 1
                /\ pc' = [pc EXCEPT ![t] = LoopPc(1)]
                /\ UNCHANGED <<ret, mu>>
           ELSE /\ Conn' = 0
                /\ StartReturnErr(t)
                /\ UNCHANGED <<conns, in, subjIdx>>
    /\ UNCHANGED <<nStarts, nStops, subsAll, Subs, curSub, cleanIdx, sending,
                   delivered, parsed, doneVars, recvVars, sink, faultVars,
                   panicked>>

\* The connection is open: the whole `if` block is skipped.
StartReuse(t) ==
    /\ Alive
    /\ pc[t] = "s_conn"
    /\ ~NeedConnect
    /\ startLog' = Log("Reuse", 0, TRUE)
    /\ pc' = [pc EXCEPT ![t] = "s_launch"]
    /\ UNCHANGED <<ret, mu, nStarts, nStops, connVars, subVars, cleanIdx,
                   msgVars, doneVars, recvVars, sink, faultVars, panicked>>

\* sub, err := n.Conn.QueueSubscribe(subj, n.QueueGroup, func(m) {...})
StartSubscribe(t) ==
    /\ Alive
    /\ pc[t] = "s_sub"
    /\ \E ok \in BOOLEAN :
        /\ startLog' = Log("Subscribe", subjIdx, ok)
        /\ IF ok
           THEN /\ subsAll' = Append(subsAll, [conn |-> Conn, subj |-> subjIdx,
                                               st |-> "subscribed",
                                               active |-> TRUE])
                /\ curSub' = Len(subsAll) + 1
                /\ pc' = [pc EXCEPT ![t] = PcAfterSubscribe]
                /\ UNCHANGED <<ret, mu>>
           ELSE /\ StartReturnErr(t)
                /\ UNCHANGED <<subsAll, curSub>>
    /\ UNCHANGED <<nStarts, nStops, connVars, Subs, subjIdx, cleanIdx, msgVars,
                   doneVars, recvVars, sink, faultVars, panicked>>

\* if err = n.Conn.Flush(); err != nil { return err }
StartFlush(t) ==
    /\ Alive
    /\ pc[t] = "s_flush"
    /\ \E ok \in BOOLEAN :
        /\ startLog' = Log("Flush", subjIdx, ok)
        /\ IF ok
           THEN /\ subsAll' = [subsAll EXCEPT ![curSub].st = "flushed"]
                /\ pc' = [pc EXCEPT ![t] = "s_limit"]
                /\ UNCHANGED <<ret, mu>>
           ELSE /\ StartReturnErr(t)
                /\ UNCHANGED subsAll
    /\ UNCHANGED <<nStarts, nStops, connVars, Subs, subjIdx, curSub, cleanIdx,
                   msgVars, doneVars, recvVars, sink, faultVars, panicked>>

\* if err = sub.SetPendingLimits(...); err != nil { return err }
\* n.Subs = append(n.Subs, sub)
StartSetPendingLimits(t) ==
    /\ Alive
    /\ pc[t] = "s_limit"
    /\ \E ok \in BOOLEAN :
        /\ startLog' = Log("SetPendingLimits", subjIdx, ok)
        /\ IF ok
           THEN /\ subsAll' = [subsAll EXCEPT ![curSub].st = "limited"]
                /\ Subs' = Append(Subs, curSub)
                /\ subjIdx' = subjIdx + 1
                /\ pc' = [pc EXCEPT ![t] = LoopPc(subjIdx + 1)]
                /\ UNCHANGED <<ret, mu>>
           ELSE /\ StartReturnErr(t)
                /\ UNCHANGED <<subsAll, Subs, subjIdx>>
    /\ UNCHANGED <<nStarts, nStops, connVars, curSub, cleanIdx, msgVars,
                   doneVars, recvVars, sink, faultVars, panicked>>

\* n.done = make(chan struct{}); n.wg.Add(1); go n.receiver(); return nil
StartLaunch(t) ==
    /\ Alive
    /\ pc[t] = "s_launch"
    /\ closes' = Append(closes, 0)
    /\ done' = Len(closes) + 1
    /\ wg' = wg + 1
    /\ recv' = Append(recv, [pc |-> "top", done |-> Len(closes) + 1,
                             msg |-> 0])
    /\ pc' = [pc EXCEPT ![t] = "idle"]
    /\ ret' = "ok"
    /\ mu' = 0
    /\ startLog' = Log("Launch", 0, TRUE)
    /\ UNCHANGED <<nStarts, nStops, connVars, subVars, cleanIdx, msgVars,
                   sink, faultVars, panicked>>

\* -------------------------------------------------------------- Stop
\* What close(n.done) does on channel d: the run-time panics on a nil
\* channel and on a channel that is already closed.
CloseOutcome(d) ==
    IF d = 0 THEN "close of nil channel"
    ELSE IF closes[d] > 0 THEN "close of closed channel"
    ELSE "none"

\* n.Lock()
StopCall(t) ==
    /\ Alive
    /\ pc[t] = "idle"
    /\ mu = 0
    /\ nStops < MaxStops
    /\ mu' = t
    /\ pc' = [pc EXCEPT ![t] = "p_close"]
    /\ nStops' = nStops + 1
    /\ UNCHANGED <<ret, nStarts, connVars, subVars, cleanIdx, startLog,
                   msgVars, doneVars, recvVars, sink, faultVars, panicked>>

\* close(n.done)
StopClose(t) ==
    /\ Alive
    /\ pc[t] = "p_close"
    /\ closes' = IF done = 0 THEN closes
                 ELSE [closes EXCEPT ![done] = @ + 1]
    /\ panicked' = CloseOutcome(done)
    /\ pc' = [pc EXCEPT ![t] = IF CloseOutcome(done) = "none"
                               THEN "p_wait" ELSE "panic"]
    /\ UNCHANGED <<ret, mu, nStarts, nStops, connVars, subVars, cleanIdx,
                   startLog, msgVars, done, recvVars, sink, faultVars>>

\* A Stop that goes on to clean() without waiting for the receivers.
StopNoWait(t) ==
    /\ Alive
    /\ pc[t] = "p_wait"
    /\ pc' = [pc EXCEPT ![t] = "p_clean"]
    /\ cleanIdx' = 1
    /\ UNCHANGED <<ret, mu, nStarts, nStops, connVars, subVars, startLog,
                   msgVars, doneVars, recvVars, sink, faultVars, panicked>>

\* n.wg.Wait() returns when the counter is zero; clean() begins
StopWait(t) ==
    /\ Alive
    /\ pc[t] = "p_wait"
    /\ wg = 0
    /\ pc' = [pc EXCEPT ![t] = "p_clean"]
    /\ cleanIdx' = 1
    /\ UNCHANGED <<ret, mu, nStarts, nStops, connVars, subVars, startLog,
                   msgVars, doneVars, recvVars, sink, faultVars, panicked>>

UnsubError(s) == [call |-> "AddError", why |-> "unsubscribe", msg |-> s, i |-> 0]

\* A clean() that gives up at the first Unsubscribe that fails: it
\* reports the error and returns, and Stop unlocks and returns.
StopUnsubscribeAbort(t) ==
    /\ Alive
    /\ pc[t] = "p_clean"
    /\ cleanIdx <= Len(Subs)
    /\ \E ok \in BOOLEAN :
        IF ok
        THEN /\ subsAll' = [subsAll EXCEPT ![Subs[cleanIdx]].active = FALSE]
             /\ sink' = sink
             /\ UNCHANGED <<pc, mu>>
        ELSE /\ sink' = Append(sink, UnsubError(Subs[cleanIdx]))
             /\ subsAll' = subsAll
             /\ pc' = [pc EXCEPT ![t] = "idle"]
             /\ mu' = 0
    /\ cleanIdx' = cleanIdx + 1
    /\ UNCHANGED <<ret, nStarts, nStops, connVars, Subs, subjIdx, curSub,
                   startLog, msgVars, doneVars, recvVars, faultVars, panicked>>

\* clean(): one iteration of `for _, sub := range n.Subs`
StopUnsubscribe(t) ==
    /\ Alive
    /\ pc[t] = "p_clean"
    /\ cleanIdx <= Len(Subs)
    /\ \E ok \in BOOLEAN :
        IF ok
        THEN /\ subsAll' = [subsAll EXCEPT ![Subs[cleanIdx]].active = FALSE]
             /\ sink' = sink
        ELSE /\ sink' = Append(sink, UnsubError(Subs[cleanIdx]))
             /\ subsAll' = subsAll
    /\ cleanIdx' = cleanIdx + 1
    /\ UNCHANGED <<callerVars, connVars, Subs, subjIdx, curSub, startLog,
                   msgVars, doneVars, recvVars, faultVars, panicked>>

\* clean(): if n.Conn != nil && !n.Conn.IsClosed() { n.Conn.Close() };
\* then Stop unlocks and returns
StopCloseConn(t) ==
    /\ Alive
    /\ pc[t] = "p_clean"
    /\ cleanIdx > Len(Subs)
    /\ conns' = IF ~NeedConnect
                THEN [conns EXCEPT ![Conn] = FALSE] ELSE conns
    /\ mu' = 0
    /\ pc' = [pc EXCEPT ![t] = "idle"]
    /\ UNCHANGED <<ret, nStarts, nStops, Conn, subVars, cleanIdx,
                   startLog, msgVars, doneVars, recvVars, sink, faultVars,
                   panicked>>

\* ---------------------------------------------------------- receiver
\* The receiver reads the field n.done each time it enters the select,
\* without holding the lock, while a later Start may assign it: the read
\* returns the value it saw last or any value assigned since.
DoneRead(r) == recv[r].done .. done

\* The goroutine launched by `go n.receiver()` reaches its first select.
RecvEnter(r) ==
    /\ Alive
    /\ recv[r].pc = "top"
    /\ \E d \in DoneRead(r) :
        recv' = [recv EXCEPT ![r] = [pc |-> "select", done |-> d, msg |-> 0]]
    /\ UNCHANGED <<callerVars, connVars, subVars, cleanIdx, startLog, msgVars,
                   doneVars, wg, sink, faultVars, panicked>>

\* case <-n.done: return, and the deferred n.wg.Done() runs
RecvDone(r) ==
    /\ Alive
    /\ recv[r].pc = "select"
    /\ closes[recv[r].done] > 0
    /\ recv' = [recv EXCEPT ![r].pc = "exited"]
    /\ wg' = wg - 1
    /\ UNCHANGED <<callerVars, connVars, subVars, cleanIdx, startLog, msgVars,
                   doneVars, sink, faultVars, panicked>>

\* case msg := <-n.in
RecvMsg(r) ==
    /\ Alive
    /\ recv[r].pc = "select"
    /\ in # <<>>
    /\ recv' = [recv EXCEPT ![r].pc = "msg", ![r].msg = Head(in)]
    /\ in' = Tail(in)
    /\ UNCHANGED <<callerVars, connVars, subVars, cleanIdx, startLog, sending,
                   delivered, parsed, doneVars, wg, sink, faultVars, panicked>>

\* A loop over the metrics that forwards the last one twice.
MsgCallsRepeat(m, n, e) ==
    (IF e THEN <<[call |-> "AddError", why |-> "decode", msg |-> m, i |-> 0]>>
          ELSE <<>>)
    \o [i \in 1..n |-> [call |-> "AddFields", why |-> "metric", msg |-> m,
                        i |-> i]]
    \o (IF n > 0 THEN <<[call |-> "AddFields", why |-> "metric", msg |-> m,
                         i |-> n]>> ELSE <<>>)

\* The accumulator calls for message m when Parse returned n metrics and
\* the error e: AddError if err != nil, then AddFields for every metric.
MsgCalls(m, n, e) ==
    (IF e THEN <<[call |-> "AddError", why |-> "decode", msg |-> m, i |-> 0]>>
          ELSE <<>>)
    \o [i \in 1..n |-> [call |-> "AddFields", why |-> "metric", msg |-> m,
                        i |-> i]]

\* metrics, err := n.parser.Parse(msg.Data) and the calls that follow;
\* the loop then enters the select again
RecvProcess(r) ==
    /\ Alive
    /\ recv[r].pc = "msg"
    /\ \E n \in 0..MaxRecs, e \in BOOLEAN :
        /\ sink' = sink \o MsgCalls(recv[r].msg, n, e)
        /\ parsed' = [parsed EXCEPT ![recv[r].msg] =
                         [n |-> n, err |-> e, times |-> @.times + 1]]
    /\ \E d \in DoneRead(r) :
        recv' = [recv EXCEPT ![r] = [pc |-> "select", done |-> d, msg |-> 0]]
    /\ UNCHANGED <<callerVars, connVars, subVars, cleanIdx, startLog, in,
                   sending, delivered, doneVars, wg, faultVars, panicked>>

FaultError == [call |-> "AddError", why |-> "fault", msg |-> 0, i |-> 0]

\* A receiver that returns after it has reported a fault.
RecvFaultExit(r) ==
    /\ Alive
    /\ recv[r].pc = "err"
    /\ sink' = Append(sink, FaultError)
    /\ recv' = [recv EXCEPT ![r].pc = "exited"]
    /\ wg' = wg - 1
    /\ UNCHANGED <<callerVars, connVars, subVars, cleanIdx, startLog, msgVars,
                   doneVars, faultVars, panicked>>

\* A receiver that reports the fault it received twice.
RecvFaultTwice(r) ==
    /\ Alive
    /\ recv[r].pc = "err"
    /\ sink' = sink \o <<FaultError, FaultError>>
    /\ \E d \in DoneRead(r) :
        recv' = [recv EXCEPT ![r] = [pc |-> "select", done |-> d, msg |-> 0]]
    /\ UNCHANGED <<callerVars, connVars, subVars, cleanIdx, startLog, msgVars,
                   doneVars, wg, faultVars, panicked>>

\* case err := <-n.errs: n.acc.AddError(...); the loop enters the select
\* again
RecvFault(r) ==
    /\ Alive
    /\ recv[r].pc = "err"
    /\ sink' = Append(sink, FaultError)
    /\ \E d \in DoneRead(r) :
        recv' = [recv EXCEPT ![r] = [pc |-> "select", done |-> d, msg |-> 0]]
    /\ UNCHANGED <<callerVars, connVars, subVars, cleanIdx, startLog, msgVars,
                   doneVars, wg, faultVars, panicked>>

\* --------------------------------------------------------- callbacks
\* The channel n.in of the moment is the one made with the newest
\* connection.
OnCurrentIn(s) == subsAll[s].conn = Len(conns)

\* func(m *nats.Msg) { n.in <- m }, called by the client for a message
\* on subscription s: the send completes if the buffer has room and
\* blocks otherwise.  The client calls it for one message of a
\* subscription at a time.
Deliver(s) ==
    /\ Alive
    /\ Delivers(s)
    /\ Len(delivered) < MaxMsgs
    /\ \A m \in sending : delivered[m].sub # s
    /\ delivered' = Append(delivered, [subj |-> subsAll[s].subj, sub |-> s])
    /\ parsed' = Append(parsed, NoRes)
    /\ IF OnCurrentIn(s) /\ Len(in) < InCap
       THEN in' = Append(in, Len(delivered) + 1) /\ sending' = sending
       ELSE sending' = sending \cup {Len(delivered) + 1} /\ in' = in
    /\ UNCHANGED <<callerVars, connVars, subVars, cleanIdx, startLog,
                   doneVars, recvVars, sink, faultVars, panicked>>

\* A callback blocked in `n.in <- m` completes once the buffer has room.
DeliverResume(m) ==
    /\ Alive
    /\ m \in sending
    /\ OnCurrentIn(delivered[m].sub)
    /\ Len(in) < InCap
    /\ in' = Append(in, m)
    /\ sending' = sending \ {m}
    /\ UNCHANGED <<callerVars, connVars, subVars, cleanIdx, startLog,
                   delivered, parsed, doneVars, recvVars, sink, faultVars,
                   panicked>>

\* A handler whose send has no default case.
ErrSendBlocking(ready) == IF ready THEN "sent" ELSE "blocked"

\* select { case n.errs <- natsError{...}: default: return }
\* n.errs is unbuffered: the send is ready only if a receiver waits in
\* its select.
ErrSend(ready) == IF ready THEN "sent" ELSE "dropped"

\* Receivers parked in the select: none of its other cases is ready (a
\* message put into n.in or the close of the done channel wakes a parked
\* receiver, which then no longer takes a send on n.errs).
Waiting ==
    {r \in 1..Len(recv) :
        recv[r].pc = "select" /\ in = <<>> /\ closes[recv[r].done] = 0}

\* natsErrHandler, called by the client of the open connection.  A
\* receiver between two selects is not yet waiting, so with a receiver at
\* its select the send may or may not find it ready.
ErrHandler ==
    /\ Alive
    /\ ~NeedConnect
    /\ errcb = "idle"
    /\ faults.raised < MaxFaults
    /\ \E ready \in {FALSE, Waiting # {}} :
        \/ /\ ErrSend(ready) = "sent"
           /\ \E r \in Waiting : recv' = [recv EXCEPT ![r].pc = "err"]
           /\ faults' = [faults EXCEPT !.raised = @ + 1, !.sent = @ + 1]
           /\ errcb' = errcb
        \/ /\ ErrSend(ready) = "dropped"
           /\ faults' = [faults EXCEPT !.raised = @ + 1, !.dropped = @ + 1]
           /\ UNCHANGED <<recv, errcb>>
        \/ /\ ErrSend(ready) = "blocked"
           /\ faults' = [faults EXCEPT !.raised = @ + 1]
           /\ errcb' = "blocked"
           /\ recv' = recv
    /\ UNCHANGED <<callerVars, connVars, subVars, cleanIdx, startLog, msgVars,
                   doneVars, wg, sink, panicked>>

\* ------------------------------------------------------ specification
Next ==
    \/ \E t \in Callers : StartCall(t)
    \/ \E t \in Callers : StartConnect(t)
    \/ \E t \in Callers : StartReuse(t)
    \/ \E t \in Callers : StartSubscribe(t)
    \/ \E t \in Callers : StartFlush(t)
    \/ \E t \in Callers : StartSetPendingLimits(t)
    \/ \E t \in Callers : StartLaunch(t)
    \/ \E t \in Callers : StopCall(t)
    \/ \E t \in Callers : StopClose(t)
    \/ \E t \in Callers : StopWait(t)
    \/ \E t \in Callers : StopUnsubscribe(t)
    \/ \E t \in Callers : StopCloseConn(t)
    \/ \E r \in 1..Len(recv) : RecvEnter(r)
    \/ \E r \in 1..Len(recv) : RecvDone(r)
    \/ \E r \in 1..Len(recv) : RecvMsg(r)
    \/ \E r \in 1..Len(recv) : RecvProcess(r)
    \/ \E r \in 1..Len(recv) : RecvFault(r)
    \/ \E s \in 1..Len(subsAll) : Deliver(s)
    \/ \E m \in 1..Len(delivered) : DeliverResume(m)
    \/ ErrHandler

Spec == Init /\ [][Next]_vars

\* Every step of one receiver goroutine.
RecvStep(r) ==
    RecvEnter(r) \/ RecvDone(r) \/ RecvMsg(r) \/ RecvProcess(r) \/ RecvFault(r)

\* Every step of a Stop past its n.Lock().
StopStep(t) ==
    StopClose(t) \/ StopWait(t) \/ StopUnsubscribe(t) \/ StopCloseConn(t)

\* The Go scheduler runs every runnable goroutine: a receiver that can
\* take a step takes one, a select whose done case is ready again and
\* again takes it in the end (the choice among ready cases is uniformly
\* random), and a Stop that can go on does.  Nothing obliges the broker
\* to deliver a message or raise a fault, nor the host to call Start or
\* Stop.
Fairness ==
    /\ \A r \in 1..MaxStarts : WF_vars(r <= Len(recv) /\ RecvStep(r))
    /\ \A r \in 1..MaxStarts : SF_vars(r <= Len(recv) /\ RecvDone(r))
    /\ \A t \in Callers : WF_vars(StopStep(t))

FairSpec == Spec /\ Fairness

\* The instance while the host never calls Stop: no done channel is ever
\* closed, so no receiver takes the done case.
RunNext ==
    \/ \E t \in Callers : StartCall(t)
    \/ \E t \in Callers : StartConnect(t)
    \/ \E t \in Callers : StartReuse(t)
    \/ \E t \in Callers : StartSubscribe(t)
    \/ \E t \in Callers : StartFlush(t)
    \/ \E t \in Callers : StartSetPendingLimits(t)
    \/ \E t \in Callers : StartLaunch(t)
    \/ \E r \in 1..Len(recv) : RecvEnter(r)
    \/ \E r \in 1..Len(recv) : RecvMsg(r)
    \/ \E r \in 1..Len(recv) : RecvProcess(r)
    \/ \E r \in 1..Len(recv) : RecvFault(r)
    \/ \E s \in 1..Len(subsAll) : Deliver(s)
    \/ \E m \in 1..Len(delivered) : DeliverResume(m)
    \/ ErrHandler

RunSpec == Init /\ [][RunNext]_vars /\ Fairness

\* The steps the program takes by itself: the receivers, the blocked
\* callbacks and a Stop past its close.  Calls of Start and Stop, new
\* messages and new faults are the environment's.
SystemStep ==
    \/ \E r \in 1..Len(recv) :
         RecvEnter(r) \/ RecvDone(r) \/ RecvMsg(r) \/ RecvProcess(r)
         \/ RecvFault(r)
    \/ \E m \in 1..Len(delivered) : DeliverResume(m)
    \/ \E t \in Callers : StopWait(t) \/ StopUnsubscribe(t) \/ StopCloseConn(t)

\* ---------------------------------------------------------------- claims
Count(P(_)) == Cardinality({k \in 1..Len(sink) : P(sink[k])})

IsRecordOf(m, c) == c.call = "AddFields" /\ c.msg = m
IsDecodeErrorOf(m, c) == c.call = "AddError" /\ c.why = "decode" /\ c.msg = m

OpenConns == {c \in 1..Len(conns) : conns[c]}

\* C1: no done channel made by a Start has close() called on it more than
\* once, and no Stop panics with "close of closed channel".
C1_CloseAtMostOnce ==
    /\ panicked # "close of closed channel"
    /\ \A d \in 1..Len(closes) : closes[d] <= 1

\* C2: a Stop that has closed the shutdown signal and waits in
\* n.wg.Wait() is never stuck: as long as it waits, some step of the
\* receivers, of a blocked callback or of Stop itself can be taken, so
\* that with fair scheduling the Stop returns.
C2_StopNeverStuck ==
    (\E t \in Callers : pc[t] = "p_wait") => ENABLED SystemStep

\* C2, as a property of behaviours under FairSpec: a Stop waiting in
\* n.wg.Wait() leaves it.
C2_StopReturns ==
    \A t \in Callers : (pc[t] = "p_wait") ~> (pc[t] # "p_wait")

\* C3: a receiver takes no message from n.in once the done channel it
\* selects on is closed.
C3_NoDequeueAfterClose ==
    [][\A r \in 1..Len(recv) :
          (recv[r].pc = "select" /\ recv'[r].pc = "msg")
              => closes[recv[r].done] = 0]_vars

\* C4: the AddFields calls for messages of one subject reach the
\* accumulator in the order the messages were delivered, and within a
\* message in the order of the parser's metrics.
C4_InOrder ==
    \A j, k \in 1..Len(sink) :
        (/\ j < k
         /\ sink[j].call = "AddFields" /\ sink[k].call = "AddFields"
         /\ delivered[sink[j].msg].subj = delivered[sink[k].msg].subj)
        => \/ sink[j].msg < sink[k].msg
           \/ sink[j].msg = sink[k].msg /\ sink[j].i < sink[k].i

\* C5: a step of Start calls opts.Connect() only when n.Conn is nil or
\* closed, and at most one connection made by the instance is open.
C5_ConnectOnlyWhenNeeded ==
    [][/\ (/\ Len(startLog') = 1
           /\ Len(startLog) = 0
           /\ startLog'[1].op = "Connect")
          => (IF Conn = 0 THEN TRUE ELSE ~conns[Conn])
       /\ Cardinality({c \in 1..Len(conns') : conns'[c]}) <= 1]_vars

\* C5 witness: a Start found the connection open, skipped the connect
\* and is about to launch the receiver.
C5_Witness ==
    /\ \E t \in Callers : pc[t] = "s_launch"
    /\ Len(startLog) = 1 /\ startLog[1].op = "Reuse"
    /\ Cardinality(OpenConns) = 1

\* C6: every invocation of natsErrHandler returns at once, sent or
\* dropped; with no receiver waiting in its select the fault is dropped
\* and no receiver is touched.
C6_ErrHandlerNeverBlocks ==
    [][faults'.raised > faults.raised
          => /\ errcb' = "idle"
             /\ faults'.sent + faults'.dropped = faults'.raised
             /\ Waiting = {}
                  => /\ faults'.dropped = faults.dropped + 1
                     /\ recv' = recv]_vars

\* C6 witness: a fault was dropped, the handler has returned, and the
\* receiver (busy with a message) goes on.
C6_Witness ==
    /\ faults.dropped > 0
    /\ faults.sent = 0
    /\ errcb = "idle"
    /\ \E r \in 1..Len(recv) : recv[r].pc = "msg"

StartOps == <<"Subscribe", "Flush", "SetPendingLimits">>

\* C7: after the connect, the broker calls of a Start are Subscribe,
\* Flush, SetPendingLimits for subject 1, then for subject 2, ..., each
\* made only after the call before it returned success.
C7_SubscribeFlushLimit ==
    \A k \in 2..Len(startLog) :
        /\ startLog[k - 1].ok
        /\ startLog[k].op # "Launch"
             => /\ startLog[1].op = "Connect"
                /\ startLog[k].op = StartOps[((k - 2) % 3) + 1]
                /\ startLog[k].subj = ((k - 2) \div 3) + 1
        /\ startLog[k].op = "Launch"
             => \/ k = 2 /\ startLog[1].op = "Reuse"
                \/ k = 2 + 3 * NumSubjects /\ startLog[1].op = "Connect"

\* C7 witness: a Start subscribed, flushed and limited every subject.
C7_Witness ==
    /\ Len(startLog) = 1 + 3 * NumSubjects
    /\ startLog[Len(startLog)].op = "SetPendingLimits"
    /\ startLog[Len(startLog)].ok
    /\ \A s \in Subjects : \E k \in 1..Len(Subs) :
          subsAll[Subs[k]].subj = s /\ subsAll[Subs[k]].st = "limited"

\* C8: for a message whose Parse returned an error, the accumulator got
\* exactly one AddError and no AddFields, and the receiver went back to
\* its select.
C8_DecodeErrorOnly ==
    \A m \in 1..Len(parsed) :
        (parsed[m].times > 0 /\ parsed[m].err)
        => /\ Count(LAMBDA c : IsDecodeErrorOf(m, c)) = 1
           /\ Count(LAMBDA c : IsRecordOf(m, c)) = 0

\* C9: no message is processed twice; for a message whose Parse returned
\* n metrics and no error the accumulator got exactly the AddFields calls
\* 1..n, each once, and no AddError.
C9_ExactlyNRecords ==
    \A m \in 1..Len(parsed) :
        /\ parsed[m].times <= 1
        /\ (parsed[m].times = 1 /\ ~parsed[m].err)
           => /\ Count(LAMBDA c : IsRecordOf(m, c)) = parsed[m].n
              /\ \A i \in 1..parsed[m].n :
                    Count(LAMBDA c : IsRecordOf(m, c) /\ c.i = i) = 1
              /\ Count(LAMBDA c : IsDecodeErrorOf(m, c)) = 0

\* C9 witness: a message that parsed into MaxRecs metrics without error
\* has been processed.
C9_Witness ==
    /\ MaxRecs > 0
    /\ \E m \in 1..Len(parsed) :
          /\ parsed[m].times = 1 /\ ~parsed[m].err /\ parsed[m].n = MaxRecs
          /\ Count(LAMBDA c : IsRecordOf(m, c)) = MaxRecs

FailedAt(log, k) == k \in 1..Len(log) /\ ~log[k].ok

\* C10: the step in which Connect, Subscribe, Flush or SetPendingLimits
\* fails ends the Start: it returns the error and unlocks, makes no done
\* channel, launches no receiver, and leaves n.Subs and every
\* subscription made so far as they are; the failed call is the last
\* broker call of that Start.
C10_StartFailureAborts ==
    [][/\ (Len(startLog') = Len(startLog) + 1 /\ FailedAt(startLog', Len(startLog')))
          => /\ ret' = "error" /\ mu' = 0 /\ pc'[mu] = "idle"
             /\ done' = done /\ closes' = closes
             /\ recv' = recv /\ wg' = wg
             /\ Subs' = Subs /\ subsAll' = subsAll
       /\ \A k \in 1..Len(startLog') :
             FailedAt(startLog', k)
             => /\ k = Len(startLog')
                /\ ret' = "error"
                /\ \A t \in Callers : pc'[t] \notin StartPcs]_vars

\* C10 witness: Flush failed for the second subject after the first was
\* subscribed and limited; Start returned the error, the first
\* subscription is still in n.Subs and both still deliver.
C10_Witness ==
    /\ ret = "error"
    /\ Len(startLog) = 6
    /\ startLog[6].op = "Flush" /\ ~startLog[6].ok
    /\ Len(Subs) = 1
    /\ Len(subsAll) = 2
    /\ \A s \in 1..2 : Delivers(s)
    /\ done = 0 /\ recv = <<>>

\* C11: in clean(), an Unsubscribe that fails does not end the Stop: the
\* step adds exactly one AddError to the sink and the loop goes on to
\* the next subscription; Stop returns only after the loop has visited
\* every element of n.Subs, and when it returns no connection is open.
C11_UnsubscribeFailureGoesOn ==
    [][\A t \in Callers :
          pc[t] = "p_clean"
          => /\ pc'[t] \in {"p_clean", "idle"}
             /\ panicked' = "none"
             /\ (pc'[t] = "p_clean" /\ cleanIdx' = cleanIdx)
                  => (sink' = sink /\ conns' = conns /\ mu' = t)
             /\ (pc'[t] = "p_clean" /\ cleanIdx' # cleanIdx)
                  => /\ mu' = t
                     /\ cleanIdx' = cleanIdx + 1
                     /\ conns' = conns
                     /\ \/ /\ sink' = sink
                           /\ ~subsAll'[Subs[cleanIdx]].active
                        \/ /\ sink' = Append(sink, UnsubError(Subs[cleanIdx]))
                           /\ subsAll' = subsAll
             /\ pc'[t] = "idle"
                  => /\ cleanIdx = Len(Subs) + 1
                     /\ sink' = sink
                     /\ mu' = 0
                     /\ \A c \in 1..Len(conns') : ~conns'[c]]_vars

\* C11 witness: Stop has returned; Unsubscribe failed for the first
\* subscription of n.Subs (one AddError for it), the second one was
\* still unsubscribed and the connection is closed.
C11_Witness ==
    /\ mu = 0 /\ nStops > 0 /\ panicked = "none"
    /\ Len(Subs) >= 2
    /\ Count(LAMBDA c : c = UnsubError(Subs[1])) = 1
    /\ ~subsAll[Subs[2]].active
    /\ Conn # 0 /\ ~conns[Conn]

\* n.Subs holds one subscription per subject of n.Subjects, each made on
\* the connection n.Conn, which is open.
SubsMatchSubjects ==
    /\ Conn # 0
    /\ conns[Conn]
    /\ \A s \in Subjects :
          Cardinality({k \in 1..Len(Subs) : subsAll[Subs[k]].subj = s}) = 1
    /\ \A k \in 1..Len(Subs) : subsAll[Subs[k]].conn = Conn

\* C12: when a Start returns nil, n.Subs holds exactly one subscription
\* per configured subject, each on the open connection n.Conn.
C12_SubsAfterStart ==
    [][(ret = "none" /\ ret' = "ok") => SubsMatchSubjects']_vars

Running == {r \in 1..Len(recv) : recv[r].pc # "exited"}

\* C13: at most one receiver goroutine of the instance is running.
C13_OneReceiver == Cardinality(Running) <= 1

\* The subscription that message m came from.
SubOf(m) == subsAll[delivered[m].sub]

FromMsg(c) == c.why \in {"metric", "decode"}

\* C14: every record and every decode error in the sink comes from a
\* message of a subscription whose SetPendingLimits has returned nil.
C14_LimitsBeforeProcessing ==
    \A k \in 1..Len(sink) :
        FromMsg(sink[k]) => SubOf(sink[k].msg).st = "limited"

Fields == Count(LAMBDA c : c.call = "AddFields")

\* The state Stop returns into: no caller is in Start or Stop, the last
\* Start returned nil and a Stop has closed its done channel.
StopReturned ==
    /\ mu = 0
    /\ ret = "ok"
    /\ done # 0
    /\ closes[done] > 0

\* C15: a subscription is unsubscribed and a connection is closed only
\* when every receiver launched so far has returned; while Stop is in
\* clean() and after it has returned, no receiver is running and the sink
\* gets no AddFields call.
C15_TeardownAfterReceivers ==
    [][/\ (\E c \in 1..Len(conns) : conns[c] /\ ~conns'[c]) => Running = {}
       /\ (\E s \in 1..Len(subsAll) : subsAll[s].active /\ ~subsAll'[s].active)
             => Running = {}
       /\ (\E t \in Callers : pc'[t] = "p_clean") => (Running' = {} /\ wg' = 0)
       /\ ((\E t \in Callers : pc[t] = "p_clean") \/ StopReturned)
             => (Running' = {} /\ Fields' = Fields)]_vars

\* C15 witness: Stop is in clean() after two receivers were launched;
\* both have returned, and a record had been forwarded before.
C15_Witness ==
    /\ \E t \in Callers : pc[t] = "p_clean"
    /\ Len(recv) = 2
    /\ Running = {}
    /\ Fields > 0

\* C16: when no Start or Stop is in progress, a callback blocked in its
\* send to n.in is never left with nothing of the program able to take a
\* step: some receiver or some blocked send can go on.
C16_CallbackNeverStuck == (sending # {} /\ mu = 0) => ENABLED SystemStep

\* The callers inside the body of Start or Stop.
InBody == {t \in Callers : pc[t] # "idle"}

\* A step of a caller: its position in Start or Stop or in the loop of
\* clean() changes.
CallerStep == pc' # pc \/ cleanIdx' # cleanIdx

\* C17: at most one caller is inside Start or Stop and it holds the
\* lock; n.Conn, n.Subs, the connections and the subscriptions change
\* only in a step of the caller that holds the lock; a step of a receiver
\* or of a callback changes none of them and leaves the lock alone.
C17_LockDiscipline ==
    [][/\ Cardinality(InBody') <= 1
       /\ \A t \in InBody' : mu' = t
       /\ (Conn' # Conn \/ Subs' # Subs \/ conns' # conns \/ subsAll' # subsAll)
             => /\ mu # 0
                /\ InBody = {mu}
                /\ CallerStep
       /\ ~CallerStep
             => (mu' = mu /\ Conn' = Conn /\ Subs' = Subs /\ conns' = conns
                 /\ subsAll' = subsAll)]_vars

\* C17 witness: the second caller is inside Stop and holds the lock
\* while a receiver is at work on a message and a callback is blocked;
\* the first caller, whose Start returned nil, is outside.
C17_Witness ==
    /\ mu = 2
    /\ pc = <<"idle", "p_wait">>
    /\ ret = "ok"
    /\ \E r \in Running : recv[r].pc = "msg"
    /\ sending # {}

\* Receivers that have taken a fault from n.errs and not yet reported it.
Holding == {r \in 1..Len(recv) : recv[r].pc = "err"}

FaultCalls == Count(LAMBDA c : c = FaultError)

\* C18: every fault raised was either dropped by the handler or handed
\* to one receiver, and every fault handed over is reported by exactly
\* one AddError or still held by its receiver, so the AddError calls for
\* faults never outnumber the faults raised; the receiver that reports a
\* fault goes back to its select.
C18_FaultOnce ==
    [][/\ errcb' = "idle"
       /\ faults'.sent + faults'.dropped = faults'.raised
       /\ FaultCalls' + Cardinality(Holding') = faults'.sent
       /\ FaultCalls' <= faults'.raised
       /\ \A r \in Holding :
            recv'[r].pc # "err"
               => /\ recv'[r].pc = "select"
                  /\ sink' = Append(sink, FaultError)
       /\ FaultCalls' # FaultCalls
            => \E r \in Holding : recv'[r].pc = "select"]_vars

\* C18 witness: one fault was handed over and reported once, the
\* receiver that reported it is back in its select and has since taken a
\* message.
C18_Witness ==
    /\ faults.sent = 1
    /\ FaultCalls = 1
    /\ Holding = {}
    /\ \E k \in 1..Len(sink) :
         /\ sink[k] = FaultError
         /\ \E j \in (k+1)..Len(sink) : FromMsg(sink[j])

\* C19: a Stop on an instance whose n.done was never made (no Start has
\* returned nil) does not panic.
C19_StopBeforeStart == (done = 0) => (panicked = "none")

InQueue(m) == \E k \in 1..Len(in) : in[k] = m

Processed(m) == m <= Len(parsed) /\ parsed[m].times > 0

====
